---------------------------- MODULE Spec2Model ----------------------------
(***************************************************************************)
(* DriveFileCounterWStatus02B.py: the extension categorizer                *)
(* (categorize_file) and the two-pass scanner (count_files_with_details)   *)
(* as driven by the menu loop (main_menu).                                 *)
(*                                                                         *)
(* Strings the program inspects character by character (file names,        *)
(* extensions) are sequences of one-character strings, so that             *)
(* os.path.splitext and str.lower are computed rather than assumed.        *)
(***************************************************************************)
EXTENDS Integers, Sequences, FiniteSets, TLC

\* ---------------------------------------------------------------- bounds
\* Number of directory slots of the modelled tree (slot 1 is the scan root).
MaxDirs == 3
\* Number of times the menu loop calls count_files_with_details.
MaxRuns == 2
\* Number of changes other processes make to the tree while scans run.
MaxChanges == 1
\* Length of the part of a file name in front of the candidate extension.
MaxStemLen == 2

\* ----------------------------------------------------------------- state
VARIABLES
  parent,           \* parent[d]: the directory slot holding slot d (0 for the root)
  content,          \* content[d]: what slot d holds, in listing order
  status,           \* status[d]: "ok", "denied" (listing refused) or "gone"
  status0,          \* status as it was when the running scan did its discovery
  changes,          \* changes other processes made to the tree so far
  pc,               \* position of the program
  run,              \* number of the count_files_with_details call
  all_dirs,         \* locals of count_files_with_details
  total_dirs,
  i,
  entries,          \* the os.scandir iterator: the listing and
  pos,              \*   the position of its next entry
  total_files,
  folder_count,
  category_counts,
  progress,         \* the progress_bar calls of the running scan, in order
  result,           \* what the running scan returned, NoResult until it does
  prev,             \* what the scan before it returned
  before,           \* the three totals as they were when the directory was opened
  categories,       \* the value of the module global FILE_CATEGORIES
  name,             \* argument of a direct categorize_file call,
  label,            \*   what it returned and
  last              \*   what the call before it returned

vars ==
  <<parent, content, status, status0, changes, pc, run, all_dirs, total_dirs, i,
    entries, pos, total_files, folder_count, category_counts, progress, result,
    prev, before, categories, name, label, last>>

treeVars == <<parent, content>>
localVars == <<all_dirs, total_dirs, i, entries, pos, total_files, folder_count,
               category_counts, before>>
catVars == <<categories, name, label, last>>

\* ------------------------------------------------------------ categorizer
\* FILE_CATEGORIES, in the insertion order the dict iterates in.
FILE_CATEGORIES ==
  << [category |-> "Images", extensions |->
        {<<".","j","p","g">>, <<".","j","p","e","g">>, <<".","p","n","g">>, <<".","g","i","f">>, <<".","b","m","p">>, <<".","t","i","f","f">>, <<".","s","v","g">>, <<".","w","e","b","p">>}],
     [category |-> "Videos", extensions |->
        {<<".","m","p","4">>, <<".","a","v","i">>, <<".","m","o","v">>, <<".","m","k","v">>, <<".","w","m","v">>, <<".","f","l","v">>, <<".","w","e","b","m">>}],
     [category |-> "Audio", extensions |->
        {<<".","m","p","3">>, <<".","w","a","v">>, <<".","f","l","a","c">>, <<".","a","a","c">>, <<".","o","g","g">>, <<".","m","4","a">>}],
     [category |-> "Documents", extensions |->
        {<<".","t","x","t">>, <<".","d","o","c">>, <<".","d","o","c","x">>, <<".","p","d","f">>, <<".","x","l","s">>, <<".","x","l","s","x">>, <<".","p","p","t">>, <<".","p","p","t","x">>, <<".","c","s","v">>}],
     [category |-> "Scripts", extensions |->
        {<<".","p","y">>, <<".","j","s">>, <<".","p","s","1">>, <<".","s","h">>, <<".","b","a","t">>, <<".","c","m","d">>}],
     [category |-> "Archives", extensions |->
        {<<".","z","i","p">>, <<".","r","a","r">>, <<".","7","z">>, <<".","t","a","r">>, <<".","g","z">>}],
     [category |-> "Applications", extensions |->
        {<<".","e","x","e">>, <<".","m","s","i">>, <<".","b","a","t">>, <<".","c","m","d">>}] >>

UpperChars ==
  <<"A","B","C","D","E","F","G","H","I","J","K","L","M",
    "N","O","P","Q","R","S","T","U","V","W","X","Y","Z">>

LowerChars ==
  <<"a","b","c","d","e","f","g","h","i","j","k","l","m",
    "n","o","p","q","r","s","t","u","v","w","x","y","z">>

\* str.lower() of one character.
LowerChar(c) ==
  IF \E k \in 1..Len(UpperChars) : UpperChars[k] = c
    THEN LowerChars[CHOOSE k \in 1..Len(UpperChars) : UpperChars[k] = c]
    ELSE c

\* str.lower()
lower(s) == [k \in 1..Len(s) |-> LowerChar(s[k])]

\* str.rfind(ch) with Python's 0-based index, -1 when ch does not occur.
rfind(p, ch) ==
  LET hits == {k \in 1..Len(p) : p[k] = ch}
  IN  IF hits = {} THEN -1
      ELSE (CHOOSE k \in hits : \A j \in hits : j <= k) - 1

\* The while loop of splitext: the first index in filenameIndex..dotIndex-1
\* (0-based) holding a character other than the dot ends the loop with a
\* split at dotIndex; running out of them means the name is all leading dots.
RECURSIVE splitext_scan(_, _, _)
splitext_scan(p, filenameIndex, dotIndex) ==
  IF filenameIndex < dotIndex
    THEN IF p[filenameIndex + 1] # "."
           THEN SubSeq(p, dotIndex + 1, Len(p))
           ELSE splitext_scan(p, filenameIndex + 1, dotIndex)
    ELSE <<>>

\* os.path.splitext(p)[1]
splitext_ext(p) ==
  LET sepIndex == rfind(p, "/")
      dotIndex == rfind(p, ".")
  IN  IF dotIndex > sepIndex
        THEN splitext_scan(p, sepIndex + 1, dotIndex)
        ELSE <<>>

\* The for loop of categorize_file from table position k on.
RECURSIVE categorize_from(_, _, _)
categorize_from(table, ext, k) ==
  IF k > Len(table) THEN "Other"
  ELSE IF ext \in table[k].extensions THEN table[k].category
  ELSE categorize_from(table, ext, k + 1)

\* A categorizer that keeps the last matching category instead of returning
\* at the first.
RECURSIVE categorize_last(_, _, _)
categorize_last(table, ext, k) ==
  IF k > Len(table) THEN "Other"
  ELSE LET rest == categorize_from(table, ext, k + 1)
       IN  IF rest # "Other" THEN categorize_last(table, ext, k + 1)
           ELSE IF ext \in table[k].extensions THEN table[k].category
           ELSE "Other"

categorize_file_last_match(file_path) ==
  categorize_last(categories, lower(splitext_ext(file_path)), 1)

categorize_file(file_path) ==
  categorize_from(categories, lower(splitext_ext(file_path)), 1)


\* ------------------------------------------------------------- file tree
Dirs == 1..MaxDirs
Root == 1

a_jpg == <<"a",".","j","p","g">>
b_mp3 == <<"b",".","m","p","3">>
c_xyz == <<"c",".","x","y","z">>
run_BAT == <<"r","u","n",".","B","A","T">>

\* A directory entry as os.scandir yields it. kind decides what is_file() and
\* is_dir() answer:
\*   "file"    regular file                      is_file() True
\*   "dir"     directory (slot dir of the tree)  is_dir() True
\*   "link"    symbolic link to a directory      is_dir() True, os.walk does not descend
\*   "special" fifo, socket, dangling link       both False
\*   "bad"     link whose target cannot be stat'ed for lack of permission:
\*             is_file() raises PermissionError
File(n) == [kind |-> "file", name |-> n, dir |-> 0]
Link == [kind |-> "link", name |-> <<"l","n","k">>, dir |-> 0]
Special == [kind |-> "special", name |-> <<"f","i","f","o">>, dir |-> 0]
Bad == [kind |-> "bad", name |-> <<"b","a","d">>, dir |-> 0]
SubDir(d) == [kind |-> "dir", name |-> <<"s","u","b">>, dir |-> d]
\* Placeholder of a content: where the subdirectories are listed.
Here == [kind |-> "subdirs", name |-> <<>>, dir |-> 0]

\* What a listable directory may hold.
Contents ==
  { <<Here>>,
    <<File(a_jpg), File(b_mp3), File(c_xyz), Here>>,
    <<File(a_jpg), Here, Bad, File(b_mp3)>>,
    <<File(run_BAT), Link, Special, Here>> }

\* What a directory nobody may list, or that does not exist, is given.
HiddenContent == <<File(a_jpg), Link, Here>>

\* The path exists: neither it nor a directory above it is gone.
RECURSIVE Exists(_)
Exists(d) ==
  /\ status[d] # "gone"
  /\ (d = Root \/ Exists(parent[d]))

RECURSIVE ChildEntries(_, _)
ChildEntries(d, k) ==
  IF k > MaxDirs THEN <<>>
  ELSE (IF parent[k] = d /\ status[k] # "gone" THEN <<SubDir(k)>> ELSE <<>>)
       \o ChildEntries(d, k + 1)

RECURSIVE Expand(_, _)
Expand(items, d) ==
  IF items = <<>> THEN <<>>
  ELSE (IF Head(items).kind = "subdirs" THEN ChildEntries(d, 2) ELSE <<Head(items)>>)
       \o Expand(Tail(items), d)

\* The entries of directory d, in the order os.scandir yields them.
Listing(d) == Expand(content[d], d)

\* os.scandir(d): how the call ends.
scandir(d) ==
  IF ~Exists(d) THEN "FileNotFoundError"
  ELSE IF status[d] = "denied" THEN "PermissionError"
  ELSE "ok"

\* DirEntry.is_file() and DirEntry.is_dir(), symbolic links followed.
is_file(entry) ==
  IF entry.kind = "bad" THEN "PermissionError"
  ELSE IF entry.kind = "file" THEN "True" ELSE "False"

is_dir(entry) ==
  IF entry.kind = "bad" THEN "PermissionError"
  ELSE IF entry.kind \in {"dir", "link"} THEN "True" ELSE "False"

\* A discovery that lists the top directory only and never descends.
walk_shallow(top) ==
  IF scandir(top) # "ok" THEN <<>> ELSE <<top>>

\* os.walk(top), top-down, onerror=None, followlinks=False: the directories
\* it yields. A directory whose listing fails is left out without an error; an
\* entry whose is_dir() raises counts as a non-directory; a symbolic link to
\* a directory is listed among dirs but not walked into.
RECURSIVE walk(_)
RECURSIVE walk_into(_, _)
walk_into(es, k) ==
  IF k > Len(es) THEN <<>>
  ELSE (IF is_dir(es[k]) = "True" /\ es[k].kind # "link"
          THEN walk(es[k].dir) ELSE <<>>)
       \o walk_into(es, k + 1)

walk(top) ==
  IF scandir(top) # "ok" THEN <<>>
  ELSE <<top>> \o walk_into(Listing(top), 1)

\* --------------------------------------------------------------- scanner
bar_length == 40

NoResult == [returned |-> FALSE]

EmptyCounts == [c \in {} |-> 0]

\* category_counts[category] = 1: an assignment where the code adds.
Increment_SetsOne(counts, category) ==
  [c \in DOMAIN counts \cup {category} |->
     IF c = category THEN 1 ELSE counts[c]]

\* category_counts[category] += 1 on a defaultdict(int)
Increment(counts, category) ==
  IF category \in DOMAIN counts
    THEN [counts EXCEPT ![category] = @ + 1]
    ELSE [c \in DOMAIN counts \cup {category} |->
            IF c = category THEN 1 ELSE counts[c]]

\* progress_bar(current, total): the call, the whole part of the percentage
\* it prints and the number of filled cells of the bar.
progress_bar(current, total) ==
  [current |-> current, total |-> total,
   percent |-> IF total > 0 THEN (current * 100) \div total ELSE 100,
   filled |-> IF total > 0 THEN (bar_length * current) \div total ELSE bar_length]

\* The accumulators as module globals: a call goes on from where the call
\* before it ended.
Discover_KeepsTotals ==
  /\ pc = "call"
  /\ all_dirs' = walk(Root)
  /\ total_dirs' = Len(walk(Root))
  /\ i' = 1
  /\ entries' = <<>>
  /\ pos' = 1
  /\ progress' = <<>>
  /\ result' = NoResult
  /\ status0' = status
  /\ before' = <<0, 0, EmptyCounts>>
  /\ pc' = "loop"
  /\ UNCHANGED <<treeVars, status, changes, run, prev, catVars, total_files,
                 folder_count, category_counts>>

\* Lines 58-71: fresh accumulators, then the discovery pass.
Discover ==
  /\ pc = "call"
  /\ total_files' = 0
  /\ folder_count' = 0
  /\ category_counts' = EmptyCounts
  /\ all_dirs' = walk(Root)
  /\ total_dirs' = Len(walk(Root))
  /\ i' = 1
  /\ entries' = <<>>
  /\ pos' = 1
  /\ progress' = <<>>
  /\ result' = NoResult
  /\ status0' = status
  /\ before' = <<0, 0, EmptyCounts>>
  /\ pc' = "loop"
  /\ UNCHANGED <<treeVars, status, changes, run, prev, catVars>>

\* The loop without its except clause: PermissionError leaves the scan too.
Scandir_NoExcept ==
  /\ pc = "loop"
  /\ i <= total_dirs
  /\ LET how == scandir(all_dirs[i])
     IN  /\ entries' = IF how = "ok" THEN Listing(all_dirs[i]) ELSE <<>>
         /\ pos' = 1
         /\ before' = <<total_files, folder_count, category_counts>>
         /\ pc' = IF how = "ok" THEN "iter" ELSE "aborted"
  /\ UNCHANGED <<treeVars, status, status0, changes, run, all_dirs, total_dirs, i,
                 total_files, folder_count, category_counts, progress, result,
                 prev, catVars>>

\* The loop with "except OSError": a directory that is gone is skipped like
\* one that is denied.
Scandir_SkipsAnyOSError ==
  /\ pc = "loop"
  /\ i <= total_dirs
  /\ LET how == scandir(all_dirs[i])
     IN  /\ entries' = IF how = "ok" THEN Listing(all_dirs[i]) ELSE <<>>
         /\ pos' = 1
         /\ before' = <<total_files, folder_count, category_counts>>
         /\ pc' = IF how = "ok" THEN "iter" ELSE "progress"
  /\ UNCHANGED <<treeVars, status, status0, changes, run, all_dirs, total_dirs, i,
                 total_files, folder_count, category_counts, progress, result,
                 prev, catVars>>

\* Lines 74-76 and 84-85: the next discovered directory is opened.
Scandir ==
  /\ pc = "loop"
  /\ i <= total_dirs
  /\ LET how == scandir(all_dirs[i])
     IN  /\ entries' = IF how = "ok" THEN Listing(all_dirs[i]) ELSE <<>>
         /\ pos' = 1
         /\ before' = <<total_files, folder_count, category_counts>>
         /\ pc' = CASE how = "ok" -> "iter"
                    [] how = "PermissionError" -> "progress"
                    [] OTHER -> "aborted"
  /\ UNCHANGED <<treeVars, status, status0, changes, run, all_dirs, total_dirs, i,
                 total_files, folder_count, category_counts, progress, result,
                 prev, catVars>>

\* Lines 77-85: one entry of the open directory.
CountEntry ==
  /\ pc = "iter"
  /\ pos <= Len(entries)
  /\ LET entry == entries[pos]
     IN  IF is_file(entry) = "PermissionError"
           THEN /\ pc' = "progress"
                /\ UNCHANGED <<pos, total_files, folder_count, category_counts>>
           ELSE /\ pc' = "iter"
                /\ pos' = pos + 1
                /\ IF is_file(entry) = "True"
                     THEN /\ total_files' = total_files + 1
                          /\ category_counts' =
                               Increment(category_counts, categorize_file(entry.name))
                          /\ UNCHANGED folder_count
                     ELSE /\ folder_count' =
                               IF is_dir(entry) = "True"
                                 THEN folder_count + 1 ELSE folder_count
                          /\ UNCHANGED <<total_files, category_counts>>
  /\ UNCHANGED <<treeVars, status, status0, changes, run, all_dirs, total_dirs, i,
                 entries, before, progress, result, prev, catVars>>

\* enumerate(all_dirs) without start=1: the calls are numbered from 0.
Progress_ZeroBased ==
  /\ \/ pc = "progress"
     \/ pc = "iter" /\ pos > Len(entries)
  /\ progress' = Append(progress, progress_bar(i - 1, total_dirs))
  /\ i' = i + 1
  /\ pc' = "loop"
  /\ UNCHANGED <<treeVars, status, status0, changes, run, all_dirs, total_dirs,
                 entries, pos, total_files, folder_count, category_counts, before,
                 result, prev, catVars>>

\* Line 86, reached when the entries run out or after the except clause.
Progress ==
  /\ \/ pc = "progress"
     \/ pc = "iter" /\ pos > Len(entries)
  /\ progress' = Append(progress, progress_bar(i, total_dirs))
  /\ i' = i + 1
  /\ pc' = "loop"
  /\ UNCHANGED <<treeVars, status, status0, changes, run, all_dirs, total_dirs,
                 entries, pos, total_files, folder_count, category_counts, before,
                 result, prev, catVars>>

\* Lines 88-89.
Return ==
  /\ pc = "loop"
  /\ i > total_dirs
  /\ result' = [returned |-> TRUE, total_files |-> total_files,
                folder_count |-> folder_count, category_counts |-> category_counts]
  /\ pc' = "done"
  /\ UNCHANGED <<treeVars, status, status0, changes, run, localVars, progress,
                 prev, catVars>>

\* main_menu: the result is printed and option 1 is chosen again.
Rescan ==
  /\ pc = "done"
  /\ run < MaxRuns
  /\ prev' = result
  /\ run' = run + 1
  /\ pc' = "call"
  /\ UNCHANGED <<treeVars, status, status0, changes, localVars, progress, result,
                 catVars>>

\* Another process takes the permission to list a discovered directory
\* away, or removes it, before the counting pass gets to it.
Pending(d) == \E k \in i..total_dirs : all_dirs[k] = d

Revoke(d) ==
  /\ pc = "loop"
  /\ changes < MaxChanges
  /\ Pending(d)
  /\ status[d] = "ok"
  /\ status' = [status EXCEPT ![d] = "denied"]
  /\ changes' = changes + 1
  /\ UNCHANGED <<treeVars, status0, pc, run, localVars, progress, result, prev,
                 catVars>>

Remove(d) ==
  /\ pc = "loop"
  /\ changes < MaxChanges
  /\ Pending(d)
  /\ status[d] = "ok"
  /\ status' = [status EXCEPT ![d] = "gone"]
  /\ changes' = changes + 1
  /\ UNCHANGED <<treeVars, status0, pc, run, localVars, progress, result, prev,
                 catVars>>

\* A tree: every slot hangs below the root or below the slot before it; a
\* slot that is listable holds one of Contents; the root may be missing or
\* unlistable from the start; nothing hangs below a slot that is missing.
Trees ==
  { t \in [parent : [Dirs -> 0..MaxDirs],
           status : [Dirs -> {"ok", "denied", "gone"}],
           content : [Dirs -> Contents \cup {HiddenContent}]] :
      /\ t.parent[Root] = 0
      /\ \A d \in Dirs \ {Root} : t.parent[d] \in {Root, d - 1}
      /\ \A d \in Dirs \ {Root} :
           t.status[t.parent[d]] = "gone" => t.status[d] = "gone"
      /\ \A d \in Dirs : t.content[d] \in Contents <=> t.status[d] = "ok" }

Init ==
  /\ \E t \in Trees :
       /\ parent = t.parent
       /\ status = t.status
       /\ status0 = t.status
       /\ content = t.content
  /\ changes = 0
  /\ pc = "call"
  /\ run = 1
  /\ all_dirs = <<>>
  /\ total_dirs = 0
  /\ i = 1
  /\ entries = <<>>
  /\ pos = 1
  /\ total_files = 0
  /\ folder_count = 0
  /\ category_counts = EmptyCounts
  /\ progress = <<>>
  /\ result = NoResult
  /\ prev = NoResult
  /\ before = <<0, 0, EmptyCounts>>
  /\ categories = FILE_CATEGORIES
  /\ name = <<>>
  /\ label = ""
  /\ last = ""

Next ==
  \/ Discover
  \/ Scandir
  \/ CountEntry
  \/ Progress
  \/ Return
  \/ Rescan
  \/ \E d \in Dirs : Revoke(d)
  \/ \E d \in Dirs : Remove(d)

Spec == Init /\ [][Next]_vars

\* ------------------------------------------- direct calls of categorize_file
StemChars == {"a", "."}

\* The sequences over StemChars of length at most n.
RECURSIVE Stems(_)
Stems(n) ==
  IF n = 0 THEN {<<>>}
  ELSE Stems(n - 1) \cup {Append(st, c) : st \in Stems(n - 1), c \in StemChars}

UpperChar(c) ==
  IF \E k \in 1..Len(LowerChars) : LowerChars[k] = c
    THEN UpperChars[CHOOSE k \in 1..Len(LowerChars) : LowerChars[k] = c]
    ELSE c

upper(s) == [k \in 1..Len(s) |-> UpperChar(s[k])]

TableExtensions == UNION {FILE_CATEGORIES[k].extensions : k \in 1..Len(FILE_CATEGORIES)}

\* Name endings tried: every extension of the table as written, in capitals
\* and without its dot, and endings outside the table.
Endings ==
  TableExtensions
    \cup {upper(e) : e \in TableExtensions}
    \cup {Tail(e) : e \in TableExtensions}
    \cup {<<>>, <<".">>, <<".","x","y","z">>, <<".","b","a","t",".">>}

Names == {st \o e : st \in Stems(MaxStemLen), e \in Endings}

\* categorize_file(name) is called and returns.
Categorize ==
  /\ pc \in {"cat0", "cat1"}
  /\ last' = label
  /\ label' = categorize_file(name)
  /\ pc' = IF pc = "cat0" THEN "cat1" ELSE "cat2"
  /\ UNCHANGED <<treeVars, status, status0, changes, run, localVars, progress,
                 result, prev, categories, name>>

InitCat ==
  /\ parent = [d \in Dirs |-> IF d = Root THEN 0 ELSE Root]
  /\ status = [d \in Dirs |-> "ok"]
  /\ status0 = [d \in Dirs |-> "ok"]
  /\ content = [d \in Dirs |-> <<Here>>]
  /\ changes = 0
  /\ pc = "cat0"
  /\ run = 1
  /\ all_dirs = <<>>
  /\ total_dirs = 0
  /\ i = 1
  /\ entries = <<>>
  /\ pos = 1
  /\ total_files = 0
  /\ folder_count = 0
  /\ category_counts = EmptyCounts
  /\ progress = <<>>
  /\ result = NoResult
  /\ prev = NoResult
  /\ before = <<0, 0, EmptyCounts>>
  /\ categories = FILE_CATEGORIES
  /\ name \in Names
  /\ label = ""
  /\ last = ""

NextCat == Categorize

SpecCat == InitCat /\ [][NextCat]_vars

\* ------------------------------------------------------------ references
\* The labels a file can get.
Labels == {FILE_CATEGORIES[k].category : k \in 1..Len(FILE_CATEGORIES)} \cup {"Other"}

RECURSIVE SumOver(_, _)
SumOver(f, S) ==
  IF S = {} THEN 0
  ELSE LET c == CHOOSE x \in S : TRUE IN f[c] + SumOver(f, S \ {c})

\* sum(category_counts.values())
SumCounts(counts) == SumOver(counts, DOMAIN counts)

\* The (directory, position) pairs of the entries of the directories in S
\* whose kind is in kinds.
EntriesIn(S, kinds) ==
  UNION { {<<d, k>> : k \in {j \in 1..Len(Listing(d)) : Listing(d)[j].kind \in kinds}}
          : d \in S }

NameAt(e) == Listing(e[1])[e[2]].name

\* The tally a scan owes for the directories in S: every file entry, every
\* directory entry, and the files per label, labels without files left out.
Tally(S) ==
  LET files == EntriesIn(S, {"file"})
      used == {c \in Labels : \E e \in files : categorize_file(NameAt(e)) = c}
  IN  [returned |-> TRUE,
       total_files |-> Cardinality(files),
       folder_count |-> Cardinality(EntriesIn(S, {"dir", "link"})),
       category_counts |->
         [c \in used |-> Cardinality({e \in files : categorize_file(NameAt(e)) = c})]]

\* Directories of the tree as it is now.
Existing == {d \in Dirs : Exists(d)}

\* d could be reached by the discovery pass: it and everything above it
\* existed and was listable when the pass ran.
RECURSIVE Reached0(_)
Reached0(d) ==
  /\ status0[d] = "ok"
  /\ (d = Root \/ Reached0(parent[d]))

\* Nothing was removed since the discovery pass.
NothingRemoved == \A d \in Dirs : status[d] = "gone" => status0[d] = "gone"

\* No entry of a directory in S refuses to be examined.
NoBadEntry(S) == EntriesIn(S, {"bad"}) = {}

\* ----------------------------------------------------------------- claims

\* C1: in every scan, whichever directories refuse to be listed, the
\* category counts add up to total_files: after every fully processed
\* directory entry and in the returned result.
C1_CountsSumToTotal ==
  /\ SumCounts(category_counts) = total_files
  /\ result.returned => SumCounts(result.category_counts) = result.total_files

C1_Witness ==
  /\ pc = "done"
  /\ result.total_files >= 2
  /\ \E k \in 1..total_dirs : status[all_dirs[k]] = "denied"

\* C2: a scan whose root does not exist, or exists and cannot be listed,
\* ends in a failure and never in a returned result.
C2_RootFailureIsSurfaced ==
  (pc = "done" /\ status0[Root] \in {"gone", "denied"}) => ~result.returned

Accessible == {d \in Dirs : Reached0(d) /\ status[d] = "ok"}

Denied == {d \in Existing \ {Root} : status[d] = "denied"}

CategoryOrder ==
  <<"Images", "Videos", "Audio", "Documents", "Scripts", "Archives", "Applications">>

\* The extension of a file name: from its last dot on, provided a character
\* other than a dot stands somewhere before that dot.
DeclaredExtension(n) ==
  LET dots == {k \in 1..Len(n) :
                 /\ n[k] = "."
                 /\ \A j \in (k + 1)..Len(n) : n[j] # "."
                 /\ \E j \in 1..(k - 1) : n[j] # "."}
  IN  IF dots = {} THEN <<>> ELSE SubSeq(n, CHOOSE k \in dots : TRUE, Len(n))

ExtensionsOf(c) ==
  UNION {categories[k].extensions :
           k \in {j \in 1..Len(categories) : categories[j].category = c}}

C5_FirstMatchInTableOrder ==
  /\ categories = FILE_CATEGORIES
  /\ pc \in {"cat1", "cat2"} =>
       LET e == lower(DeclaredExtension(name))
           m == {k \in 1..Len(CategoryOrder) : e \in ExtensionsOf(CategoryOrder[k])}
       IN  /\ label \in Labels
           /\ label = IF m = {} THEN "Other"
                      ELSE CategoryOrder[CHOOSE k \in m : \A j \in m : k <= j]
           /\ e \in {<<".","b","a","t">>, <<".","c","m","d">>} => label = "Scripts"
  /\ pc = "cat2" => label = last

C5_Witness ==
  /\ pc = "cat2"
  /\ name = <<"a", ".", "B", "A", "T">>
  /\ label = "Scripts"

\* C6: on a tree whose directories are all listable the result is the tally
\* over every directory of the tree, root included: the file entries, the
\* directory entries, the files per label with no key for a label without
\* files. An empty root gives 0, 0, {}; a root with a.jpg, b.mp3, c.xyz and
\* one empty subfolder gives 3, 1, {Images: 1, Audio: 1, Other: 1}.
AllListable ==
  /\ status[Root] = "ok"
  /\ status0 = status
  /\ \A d \in Existing : status[d] = "ok"
  /\ NoBadEntry(Existing)

ExampleListing ==
  <<File(a_jpg), File(b_mp3), File(c_xyz), SubDir(2)>>

ExampleResult ==
  [returned |-> TRUE, total_files |-> 3, folder_count |-> 1,
   category_counts |->
     [c \in {"Images", "Audio", "Other"} |-> 1]]

C6_ResultIsTheTally ==
  (pc = "done" /\ AllListable)
    => /\ result = Tally(Existing)
       /\ Listing(Root) = <<>>
            => result = [returned |-> TRUE, total_files |-> 0, folder_count |-> 0,
                         category_counts |-> EmptyCounts]
       /\ (Listing(Root) = ExampleListing /\ Listing(2) = <<>>)
            => result = ExampleResult

C6_Witness ==
  /\ pc = "done"
  /\ AllListable
  /\ Listing(Root) = ExampleListing
  /\ Listing(2) = <<>>
  /\ result = ExampleResult

\* C7: a second scan of a tree nobody changed returns what the first scan
\* returned.
C7_RescanIsIdentical ==
  (pc = "done" /\ run >= 2 /\ changes = 0)
    => /\ prev.returned
       /\ result = prev

C7_Witness ==
  /\ pc = "done"
  /\ run >= 2
  /\ changes = 0
  /\ result.total_files >= 2
  /\ result.folder_count >= 1

\* C8: a directory whose listing fails with access denial, at whatever point
\* of the listing, leaves the three totals as they were when it was opened.
C8_FailedDirectoryContributesNothing ==
  pc = "progress" => <<total_files, folder_count, category_counts>> = before

\* C9: a discovered directory that is gone when the counting pass opens it
\* aborts the scan: the step that opens it makes no progress call and
\* returns nothing, nothing happens after the abort, and no scan returns
\* with a discovered directory gone.
C9_Step ==
  /\ pc # "aborted"
  /\ (pc = "loop" /\ pc' # "loop" /\ i <= total_dirs /\ ~Exists(all_dirs[i]))
       => /\ pc' = "aborted"
          /\ progress' = progress
          /\ Len(progress') = i - 1
          /\ ~result'.returned
  /\ pc' = "done" => \A k \in 1..total_dirs : Exists(all_dirs[k])

C9_RemovedDirectoryAborts == [][C9_Step]_vars

C9_Witness ==
  /\ pc = "aborted"
  /\ i >= 2
  /\ i < total_dirs
  /\ total_files >= 1
  /\ Len(progress) = i - 1
  /\ ~result.returned

\* C10: on an unchanged tree where no listing fails in the counting pass,
\* total_folders >= totalDirectories - 1, with equality exactly when every
\* directory entry seen in the counting pass was itself discovered.
Discovered == {all_dirs[k] : k \in 1..total_dirs}

SeenDirectoryEntries == EntriesIn(Discovered, {"dir", "link"})

EverySeenDirectoryDiscovered ==
  \A e \in SeenDirectoryEntries :
    /\ Listing(e[1])[e[2]].kind = "dir"
    /\ Listing(e[1])[e[2]].dir \in Discovered

C10_PassesAgreeOnDirectories ==
  (pc = "done" /\ status0 = status /\ NoBadEntry(Discovered))
    => /\ folder_count >= total_dirs - 1
       /\ folder_count = total_dirs - 1 <=> EverySeenDirectoryDiscovered

=============================================================================
